---- MODULE Spec2Model ----
(***************************************************************************)
(* Model of scripts/edgartools_runner_parallel.py: the worker tasks        *)
(* (CompanyDownloadWorker.download_company_filings), the batch archiver    *)
(* (BatchArchiver), the orchestrator (process_companies_parallel) and     *)
(* main under Spec; the progress bar (ProgressBar) with concurrent         *)
(* callers under ProgressSpec; the writers of the run log (log_progress    *)
(* in the worker threads, the collection loop in the orchestrator's        *)
(* thread) under LogSpec; one download task in detail, with the backend's  *)
(* listings and the files on disk, run and re-run, under TaskSpec; the     *)
(* archiver's two methods on a disk with and without the entities'        *)
(* subtrees under ArchiverSpec.                                            *)
(*                                                                         *)
(* Tickers are small integers; Missing stands for an absent or empty       *)
(* 'Ticker' field and Unknown for the string 'Unknown' the code puts in    *)
(* its place.                                                              *)
(***************************************************************************)
EXTENDS Integers, Sequences, FiniteSets, TLC

\* ---------------------------------------------------------------- bounds
\* The entity list has 1..MaxEntities entries, batch_size is 1..MaxBatchSize,
\* num_workers is 1..MaxWorkers, and the window of years a task walks through
\* (years_to_fetch, 10 in the code) has MaxYears years.
MaxEntities == 3
MaxBatchSize == 2
MaxWorkers == 2
MaxYears == 1

\* multiprocessing.cpu_count() of the machine
CpuCount == 1

\* Under FairSpec, which is Spec with fair scheduling, the entity list has
\* up to MaxFairEntities entries.
MaxFairEntities == 2

\* Under ProgressSpec MaxCallers threads call the progress bar, each up to
\* MaxCalls times. Under LogSpec MaxWorkers worker threads and the
\* orchestrator write up to MaxCalls entries each to the run log.
MaxCallers == 2
MaxCalls == 2

\* Under ArchiverSpec the methods of a BatchArchiver are called up to
\* MaxArchiverCalls times with lists of up to MaxBatchSize of MaxEntities
\* tickers.
MaxArchiverCalls == 2

\* Under TaskSpec the window has MaxWindow years, the backend returns up to
\* MaxFilings filings for a year with accession numbers 1..MaxAccession, the
\* task is run MaxRuns times on the same storage, and up to MaxFaults calls
\* raise in all.
MaxWindow == 2
MaxFilings == 2
MaxAccession == 2
MaxRuns == 2
MaxFaults == 2

Missing == 0
Unknown == 0 - 1

\* exit_code while the process is still running
NoExit == 0 - 1

VARIABLES
    argv,                 \* the num_workers and batch_size arguments as given
    exit_code,            \* status of sys.exit, NoExit before it
    run_dir,              \* the run's archive directory exists
    warned,               \* the warning about more workers than CPUs was printed
    pool,                 \* max_workers of the ThreadPoolExecutor, 0 before it
    companies_to_fetch,   \* the entity list: a sequence of tickers
    batch_size,           \* batch_size argument
    num_workers,          \* num_workers argument
    submitted,            \* number of tasks handed to executor.submit so far
    task,                 \* per entity: position and result of its download task
    pc,                   \* position of process_companies_parallel
    completed,            \* the collection loop's counter
    collected,            \* entity indices in the order as_completed yielded them
    successful_downloads,
    failed_companies,
    completed_tickers,    \* the accumulator
    batch_counter,        \* BatchArchiver.batch_counter
    archive_calls,        \* every archive_batch call, in order, with its result
    cleanup_calls,        \* every cleanup_archived_data call, in order
    log,                  \* entries the orchestrator wrote to the run log
    lock,                 \* ProgressBar.lock: the caller holding it, or Free
    current,              \* ProgressBar.current
    call,                 \* per caller: position in update/finish, its locals
    screen,               \* what has been printed, in order
    applied,              \* the counts of the update calls, in lock order
    writer,               \* per thread: position in writing a log entry
    logfile,              \* the lines written to progress_logger, in order
    backend,              \* per requested year: the filings get_filings returns
    storage,              \* root_dir: directories, files, files cut short
    job,                  \* the download task: position and locals
    events,               \* every call the task made, in order, with its result
    at_start,             \* per run of the task: the files present at its start
    disk,                 \* data_dir: whether it exists, the tickers with a subtree
    archiver,             \* the BatchArchiver object: its batch_counter
    tars,                 \* the archive files in run_dir, in order of creation
    calls                 \* every call of the archiver's methods, with its result

vars == <<argv, exit_code, run_dir, warned, pool,
          companies_to_fetch, batch_size, num_workers, submitted, task, pc,
          completed, collected, successful_downloads, failed_companies,
          completed_tickers, batch_counter, archive_calls, cleanup_calls, log,
          lock, current, call, screen, applied, writer, logfile,
          backend, storage, job, events, at_start,
          disk, archiver, tars, calls>>

\* The progress bar taken alone
progress == <<lock, current, call, screen, applied>>

\* The run log's handle with its writers taken alone
runlog == <<writer, logfile>>

\* One download task with its backend and storage taken alone
download == <<backend, storage, job, events, at_start>>

\* A BatchArchiver with its disk taken alone
archiving == <<disk, archiver, tars, calls>>

\* What the steps of Spec leave alone
aside == <<progress, runlog, download, archiving>>

\* What the collection loop and the tasks never touch
env == <<argv, exit_code, run_dir, warned, pool>>

config == <<companies_to_fetch, batch_size, num_workers>>
orch == <<pc, completed, collected, successful_downloads, failed_companies,
          completed_tickers, batch_counter, archive_calls, cleanup_calls, log>>

\* The variables of Spec, which the other specifications leave alone
main == <<env, config, submitted, task, orch>>

\* What the steps of ProgressSpec, of LogSpec and of TaskSpec leave alone
besideProgress == <<main, runlog, download, archiving>>
besideLog == <<main, progress, download, archiving>>
besideTask == <<main, progress, runlog, archiving>>
besideArchiver == <<main, progress, runlog, download>>

\* ---------------------------------------------------------------- helpers
\* threading.Lock() not held; update(completed_count=None)
Free == 0
NoCount == 0 - 1

Callers == 1..MaxCallers

IdleCall == [pc |-> "idle", count |-> NoCount, read |-> 0, calls |-> 0]

\* ProgressBar.__init__
ProgressIdle ==
    /\ lock = Free
    /\ current = 0
    /\ call = [c \in Callers |-> IdleCall]
    /\ screen = <<>>
    /\ applied = <<>>

\* The orchestrator's thread and the pool's threads, one per worker
Orchestrator == 0
WorkerThreads == 1..MaxWorkers
Threads == {Orchestrator} \cup WorkerThreads

IdleWriter == [pc |-> "idle", kind |-> "none", part |-> 0, entries |-> 0]

\* progress_logger after the header was written and flushed
LogIdle ==
    /\ writer = [t \in Threads |-> IdleWriter]
    /\ logfile = <<>>

\* A task not started, on an empty backend and an empty disk
IdleJob == [pc |-> "none", year |-> 0, fails |-> {}, success |-> FALSE,
            ticker |-> Missing, run |-> 0, doc |-> 0, total_filings |-> 0,
            faults |-> 0]

NoStorage == [dirs |-> {}, files |-> {}, partial |-> {}]

TaskIdle ==
    /\ backend = <<>>
    /\ storage = NoStorage
    /\ job = IdleJob
    /\ events = <<>>
    /\ at_start = <<>>

\* BatchArchiver.__init__ on a disk without data_dir
ArchiverIdle ==
    /\ disk = [data_dir |-> FALSE, subtrees |-> {}]
    /\ archiver = [batch_counter |-> 0]
    /\ tars = <<>>
    /\ calls = <<>>

AsideIdle == ProgressIdle /\ LogIdle /\ TaskIdle /\ ArchiverIdle

N == Len(companies_to_fetch)
Entities == 1..N

Range(s) == {s[i] : i \in DOMAIN s}

NoDup(s) == \A i, j \in DOMAIN s : i # j => s[i] # s[j]

\* s[:n] and s[n:] of Python
Take(s, n) == SubSeq(s, 1, IF n < Len(s) THEN n ELSE Len(s))
Drop(s, n) == SubSeq(s, (IF n < Len(s) THEN n ELSE Len(s)) + 1, Len(s))

\* company.get('Ticker', 'Unknown') of the collection loop
TickerOrUnknown(i) ==
    IF companies_to_fetch[i] = Missing THEN Unknown ELSE companies_to_fetch[i]

\* The entity lists of the model: entity i carries ticker i, except that the
\* last entity may instead repeat the first entity's ticker or have no ticker.
EntityLists ==
    UNION {[1..n -> 0..MaxEntities] : n \in 1..MaxEntities}

ValidList(l) ==
    /\ \A i \in 1..(Len(l) - 1) : l[i] = i
    /\ l[Len(l)] \in {Len(l), 1, Missing}

\* A command-line argument: text that int() accepts, with its value, or text
\* that int() rejects with ValueError.
IntArg(n) == [ok |-> TRUE, v |-> n]
BadArg == [ok |-> FALSE, v |-> 0]

WorkerArgs == {BadArg} \cup {IntArg(n) : n \in (0 - 1)..MaxWorkers}
BatchArgs == {BadArg} \cup {IntArg(n) : n \in (0 - 1)..MaxBatchSize}

\* ---------------------------------------------------------------- tasks
FailureKinds == {"identity", "company", "listing", "document", "log"}

QueuedTask == [pc |-> "queued", year |-> 0, fails |-> {}, success |-> FALSE,
               ticker |-> Missing]

Finished(i) == task[i].pc \in {"returned", "raised"}
Running(i) == i <= submitted /\ task[i].pc \in {"init", "years", "complete"}

\* The process at the start of main(): both arguments are given on the
\* command line, the entity list is the content of the JSON file (it may be
\* empty), and num_workers and batch_size are not assigned yet.
Init ==
    /\ companies_to_fetch \in {l \in EntityLists : ValidList(l)} \cup {<<>>}
    /\ argv \in [workers : WorkerArgs, batch : BatchArgs]
    /\ exit_code = NoExit
    /\ run_dir = FALSE
    /\ warned = FALSE
    /\ pool = 0
    /\ batch_size = 0
    /\ num_workers = 0
    /\ submitted = 0
    /\ task = [i \in 1..Len(companies_to_fetch) |-> QueuedTask]
    /\ pc = "main"
    /\ completed = 0
    /\ collected = <<>>
    /\ successful_downloads = 0
    /\ failed_companies = <<>>
    /\ completed_tickers = <<>>
    /\ batch_counter = 0
    /\ archive_calls = <<>>
    /\ cleanup_calls = <<>>
    /\ log = <<>>
    /\ AsideIdle

\* ------------------------------------------------ download_company_filings
\* What a finished task hands to future.result(): a returned tuple
\* (success, ticker, message) or a raised exception.
Returned(t, ok, tk) ==
    [t EXCEPT !.pc = "returned", !.success = ok, !.ticker = tk]

Raised(t) == [t EXCEPT !.pc = "raised"]

Failing(t, kind) == [t EXCEPT !.fails = @ \cup {kind}]
\* Variant: the outer handler is missing, so the exception leaves the task
OuterExcept_Missing(t, tk, logOk) == Raised(t)

\* except Exception as e: log_progress(error_msg); return False, ticker, error_msg
\* (the handler's own log_progress is not protected by any try)
OuterExcept(t, tk, logOk) ==
    IF logOk THEN Returned(t, FALSE, tk) ELSE Raised(Failing(t, "log"))

\* Variant: after a failed Company(ticker) the task goes on to the years
CompanyExcept_Continues(t, tk, logOk, logOk2) == [t EXCEPT !.pc = "list"]

\* except around Company(ticker): log_progress(error_msg); return False, ...
\* An exception of this handler's log_progress reaches the outer handler.
CompanyExcept(t, tk, logOk, logOk2) ==
    IF logOk THEN Returned(t, FALSE, tk)
    ELSE OuterExcept(Failing(t, "log"), tk, logOk2)

\* The pool runs at most num_workers tasks at a time and takes them from its
\* queue in submission order.
CanStart(i) ==
    /\ i <= submitted
    /\ task[i].pc = "queued"
    /\ \A j \in 1..(i - 1) : task[j].pc # "queued"
    /\ Cardinality({j \in Entities : Running(j)}) < pool

\* Entry of the task: the ticker check and the first log_progress, both
\* outside the try block.
TaskStart(i) ==
    /\ CanStart(i)
    /\ \E logOk \in BOOLEAN :
         task' = [task EXCEPT ![i] =
            IF companies_to_fetch[i] = Missing
            THEN Returned(@, FALSE, Unknown)
            ELSE IF logOk THEN [@ EXCEPT !.pc = "init"]
                 ELSE Raised(Failing(@, "log"))]
    /\ UNCHANGED <<config, submitted, orch, env, aside>>

\* set_identity(...) and Company(ticker)
TaskInit(i) ==
    /\ i <= submitted
    /\ task[i].pc = "init"
    /\ \E identityOk, companyOk, logOk, logOk2 \in BOOLEAN :
         LET tk == companies_to_fetch[i] IN
         task' = [task EXCEPT ![i] =
            IF ~identityOk
            THEN OuterExcept(Failing(@, "identity"), tk, logOk)
            ELSE IF ~companyOk
            THEN CompanyExcept(Failing(@, "company"), tk, logOk, logOk2)
            ELSE [@ EXCEPT !.pc = IF MaxYears = 0 THEN "complete" ELSE "years"]]
    /\ UNCHANGED <<config, submitted, orch, env, aside>>

YearOutcomes == {"ok", "listing", "document"}

\* One iteration of `for year in years`: the listing may fail, a document
\* may fail; both are swallowed and the loop goes on.
YearStep(t, outcome) ==
    LET u == IF outcome = "ok" THEN t ELSE Failing(t, outcome)
    IN [u EXCEPT !.year = @ + 1,
                 !.pc = IF t.year + 1 >= MaxYears THEN "complete" ELSE "years"]

TaskYear(i) ==
    /\ i <= submitted
    /\ task[i].pc = "years"
    /\ \E outcome \in YearOutcomes :
         task' = [task EXCEPT ![i] = YearStep(@, outcome)]
    /\ UNCHANGED <<config, submitted, orch, env, aside>>

\* Variant: the task counts its own success
TaskComplete_Counts(i) ==
    /\ i <= submitted
    /\ task[i].pc = "complete"
    /\ task' = [task EXCEPT ![i] = Returned(@, TRUE, companies_to_fetch[i])]
    /\ successful_downloads' = successful_downloads + 1
    /\ UNCHANGED <<config, submitted, pc, completed, collected,
                   failed_companies, completed_tickers, batch_counter,
                   archive_calls, cleanup_calls, log, env, aside>>

\* log_progress("Completed ..."); return True, ticker, success_msg
TaskComplete(i) ==
    /\ i <= submitted
    /\ task[i].pc = "complete"
    /\ \E logOk, logOk2 \in BOOLEAN :
         LET tk == companies_to_fetch[i] IN
         task' = [task EXCEPT ![i] =
            IF logOk THEN Returned(@, TRUE, tk)
            ELSE OuterExcept(Failing(@, "log"), tk, logOk2)]
    /\ UNCHANGED <<config, submitted, orch, env, aside>>

\* ------------------------------------------------------------ BatchArchiver
\* The writes of the orchestrator to the run log are taken to succeed; the
\* failures of an archive step are those of archive_batch and of
\* cleanup_archived_data.
\* archive_batch ends in one of three ways: it returns (path, size), it
\* returns None because data_dir does not exist, or tarfile raises.
ArchiveOutcomes == {"ok", "none", "raise"}

\* self.batch_counter += 1 is the first statement of archive_batch
CounterAfterArchive(c) == c + 1
\* Variant: cleanup runs whatever archive_batch did
CleanupReached_Always(result) == TRUE

\* `archive_path, archive_size = archiver.archive_batch(...)` falls through
\* to the cleanup call only when a pair came back
CleanupReached(result) == result = "ok"

\* The try block ran to its end: the archive was made and cleanup did not raise
StepOk(result, cleanupOk) == CleanupReached(result) /\ cleanupOk

\* The record kept of one archive_batch call: its argument, how it ended, the
\* batch number it used, whether the try block around it ran to its end, the
\* value of `completed` at the call and the accumulator right after the step.
ArchiveCall(ids, result, cleanupOk, phase, accAfter) ==
    [ids |-> ids, result |-> result,
     number |-> CounterAfterArchive(batch_counter),
     step_ok |-> StepOk(result, cleanupOk),
     phase |-> phase, at |-> Len(collected) + (IF phase = "drain" THEN 1 ELSE 0),
     acc_after |-> accAfter]

CleanupCall(ids, cleanupOk) ==
    [ids |-> ids, after |-> Len(archive_calls) + 1, ok |-> cleanupOk]

CleanupCallsAfter(ids, result, cleanupOk) ==
    IF CleanupReached(result)
    THEN Append(cleanup_calls, CleanupCall(ids, cleanupOk))
    ELSE cleanup_calls

\* ------------------------------------------------------------------- main
\* Variants: zero workers are accepted; a zero batch size is accepted
WorkersValid_AllowZero(a) == a.ok /\ a.v >= 0

\* num_workers = int(sys.argv[2]); if num_workers <= 0: raise ValueError
WorkersValid(a) == a.ok /\ a.v > 0

\* batch_size = int(sys.argv[3]); if batch_size <= 0: raise ValueError
BatchValid(a) == a.ok /\ a.v > 0

\* if not companies_to_fetch: ... sys.exit(1)
ListValid(l) == l # <<>>

\* if num_workers > cpu_count: print("Warning: ...")
ExceedsCpus(a) == WorkersValid(a) /\ a.v > CpuCount

\* main() up to the call of process_companies_parallel: every rejected
\* input ends in sys.exit(1)
MainStart ==
    /\ pc = "main"
    /\ warned' = ExceedsCpus(argv.workers)
    /\ IF WorkersValid(argv.workers) /\ BatchValid(argv.batch)
          /\ ListValid(companies_to_fetch)
       THEN /\ num_workers' = argv.workers.v
            /\ batch_size' = argv.batch.v
            /\ pc' = "init"
            /\ UNCHANGED exit_code
       ELSE /\ pc' = "aborted"
            /\ exit_code' = 1
            /\ UNCHANGED <<num_workers, batch_size>>
    /\ UNCHANGED <<argv, run_dir, pool, companies_to_fetch, submitted, task,
                   completed, collected, successful_downloads,
                   failed_companies, completed_tickers, batch_counter,
                   archive_calls, cleanup_calls, log, aside>>

\* Variant: the exit status is 0 whatever failed
ExitStatus_AlwaysZero(failed) == 0

\* if failed_companies: sys.exit(1) else: sys.exit(0)
ExitStatus(failed) == IF failed # <<>> THEN 1 ELSE 0

\* main() after process_companies_parallel has returned
MainExit ==
    /\ pc = "done"
    /\ pc' = "exit"
    /\ exit_code' = ExitStatus(failed_companies)
    /\ UNCHANGED <<argv, run_dir, warned, pool, config, submitted, task,
                   completed, collected, successful_downloads, failed_companies,
                   completed_tickers, batch_counter, archive_calls,
                   cleanup_calls, log, aside>>

\* ------------------------------------------------ process_companies_parallel
\* Variant: the pool is cut down to the number of CPUs
PoolSize_Capped(n) == IF n > CpuCount THEN CpuCount ELSE n

\* ThreadPoolExecutor(max_workers=num_workers)
PoolSize(n) == n

\* The start of the function: BatchArchiver(...) creates the run's archive
\* directory, the log file is opened, the pool and the workers are made
Initialize ==
    /\ pc = "init"
    /\ pc' = "dispatch"
    /\ run_dir' = TRUE
    /\ pool' = PoolSize(num_workers)
    /\ UNCHANGED <<argv, exit_code, warned, config, submitted, task, completed,
                   collected, successful_downloads, failed_companies,
                   completed_tickers, batch_counter, archive_calls,
                   cleanup_calls, log, aside>>

\* executor.submit(worker.download_company_filings, company), one per entity
Submit ==
    /\ pc = "dispatch"
    /\ submitted < N
    /\ submitted' = submitted + 1
    /\ pc' = IF submitted + 1 = N THEN "drain" ELSE "dispatch"
    /\ UNCHANGED <<config, task, completed, collected, successful_downloads,
                   failed_companies, completed_tickers, batch_counter,
                   archive_calls, cleanup_calls, log, env, aside>>

\* Variants: a finished future is yielded again; the future of a task that
\* raised is never yielded
Yieldable_Again(i) == Finished(i)

Yieldable_ReturnedOnly(i) ==
    task[i].pc = "returned" /\ i \notin Range(collected)

\* as_completed yields every future once, when it has finished
Yieldable(i) == Finished(i) /\ i \notin Range(collected)

\* Variant: the loop is left after the first outcome
DrainDone_AtFirst(c) == c # <<>>

\* as_completed is exhausted
DrainDone(c) == Len(c) = N
\* Variants: the ticker is appended twice; it is put in front
AppendTicker_Twice(acc, tk) == Append(Append(acc, tk), tk)

AppendTicker_Front(acc, tk) == <<tk>> \o acc

\* completed_tickers.append(result_ticker)
AppendTicker(acc, tk) == Append(acc, tk)
\* Variants: the threshold test is off by one, either way
ArchiveTriggered_Above(acc) == Len(acc) > batch_size

ArchiveTriggered_Early(acc) == Len(acc) >= batch_size - 1

\* if len(completed_tickers) >= batch_size
ArchiveTriggered(acc) == Len(acc) >= batch_size

\* completed_tickers[:batch_size]
BatchToArchive(acc) == Take(acc, batch_size)

\* Variants: the list is sliced also when the step failed; it is never sliced
AccumulatorAfter_AlwaysSliced(acc, result, cleanupOk) == Drop(acc, batch_size)

AccumulatorAfter_NeverSliced(acc, result, cleanupOk) == acc

\* completed_tickers = remaining_tickers is the last statement of the try
\* block; the except branch leaves the list as it is
AccumulatorAfter(acc, result, cleanupOk) ==
    IF StepOk(result, cleanupOk) THEN Drop(acc, batch_size) ELSE acc

LogEntry(kind, n) == [kind |-> kind, n |-> n]

\* What the archive sub-step of the loop body writes to the log
ArchiveLog(result, cleanupOk) ==
    LET n == CounterAfterArchive(batch_counter) IN
    IF ~CleanupReached(result) THEN <<LogEntry("ARCHIVE ERROR", n)>>
    ELSE IF cleanupOk THEN <<LogEntry("ARCHIVED", n)>>
    ELSE <<LogEntry("ARCHIVED", n), LogEntry("ARCHIVE ERROR", n)>>

\* The body of `for future in as_completed(...)` for a task that returned
\* success: count it, append it, and archive when the threshold is reached.
CollectSuccess(i, result, cleanupOk) ==
    LET acc == AppendTicker(completed_tickers, task[i].ticker) IN
    /\ successful_downloads' = successful_downloads + 1
    /\ failed_companies' = failed_companies
    /\ IF ArchiveTriggered(acc)
       THEN LET after == AccumulatorAfter(acc, result, cleanupOk) IN
            /\ batch_counter' = CounterAfterArchive(batch_counter)
            /\ archive_calls' = Append(archive_calls,
                   ArchiveCall(BatchToArchive(acc), result, cleanupOk,
                               "drain", after))
            /\ cleanup_calls' =
                   CleanupCallsAfter(BatchToArchive(acc), result, cleanupOk)
            /\ completed_tickers' = after
            /\ log' = log \o ArchiveLog(result, cleanupOk)
                          \o <<LogEntry("Completed", completed + 1)>>
       ELSE /\ completed_tickers' = acc
            /\ log' = Append(log, LogEntry("Completed", completed + 1))
            /\ UNCHANGED <<batch_counter, archive_calls, cleanup_calls>>

\* Variants: the failed entity is put in the accumulator as well; it is
\* counted as a success as well
CollectFailure_Accumulated(i) ==
    /\ failed_companies' = Append(failed_companies, task[i].ticker)
    /\ completed_tickers' = Append(completed_tickers, task[i].ticker)
    /\ log' = Append(log, LogEntry("Completed", completed + 1))
    /\ UNCHANGED <<successful_downloads, batch_counter,
                   archive_calls, cleanup_calls>>

CollectFailure_Counted(i) ==
    /\ failed_companies' = Append(failed_companies, task[i].ticker)
    /\ successful_downloads' = successful_downloads + 1
    /\ log' = Append(log, LogEntry("Completed", completed + 1))
    /\ UNCHANGED <<completed_tickers, batch_counter,
                   archive_calls, cleanup_calls>>

\* ... for a task that returned a failure
CollectFailure(i) ==
    /\ failed_companies' = Append(failed_companies, task[i].ticker)
    /\ log' = Append(log, LogEntry("Completed", completed + 1))
    /\ UNCHANGED <<successful_downloads, completed_tickers, batch_counter,
                   archive_calls, cleanup_calls>>

\* Variant: the entity of a raising task is put in the accumulator as well
CollectException_Accumulated(i) ==
    /\ failed_companies' = Append(failed_companies, TickerOrUnknown(i))
    /\ completed_tickers' = Append(completed_tickers, TickerOrUnknown(i))
    /\ log' = Append(log, LogEntry("Exception", completed + 1))
    /\ UNCHANGED <<successful_downloads, batch_counter,
                   archive_calls, cleanup_calls>>

\* ... for a task whose future.result() raises
CollectException(i) ==
    /\ failed_companies' = Append(failed_companies, TickerOrUnknown(i))
    /\ log' = Append(log, LogEntry("Exception", completed + 1))
    /\ UNCHANGED <<successful_downloads, completed_tickers, batch_counter,
                   archive_calls, cleanup_calls>>

Collect(i) ==
    /\ pc = "drain"
    /\ Yieldable(i)
    /\ completed' = completed + 1
    /\ collected' = Append(collected, i)
    /\ pc' = IF DrainDone(collected') THEN "flush" ELSE "drain"
    /\ IF task[i].pc = "raised" THEN CollectException(i)
       ELSE IF task[i].success
            THEN \E result \in ArchiveOutcomes, cleanupOk \in BOOLEAN :
                     CollectSuccess(i, result, cleanupOk)
            ELSE CollectFailure(i)
    /\ UNCHANGED <<config, submitted, task, env, aside>>

\* What the remainder flush writes to the log
FinalLog(result, cleanupOk) ==
    LET n == CounterAfterArchive(batch_counter) IN
    IF ~CleanupReached(result) THEN <<LogEntry("FINAL BATCH ERROR", n)>>
    ELSE IF cleanupOk THEN <<LogEntry("FINAL BATCH", n)>>
    ELSE <<LogEntry("FINAL BATCH", n), LogEntry("FINAL BATCH ERROR", n)>>

\* if completed_tickers: archive and clean up the remainder; the list itself
\* is not reassigned
Flush ==
    /\ pc = "flush"
    /\ pc' = "finalize"
    /\ IF completed_tickers # <<>>
       THEN \E result \in ArchiveOutcomes, cleanupOk \in BOOLEAN :
            /\ batch_counter' = CounterAfterArchive(batch_counter)
            /\ archive_calls' = Append(archive_calls,
                   ArchiveCall(completed_tickers, result, cleanupOk,
                               "final", completed_tickers))
            /\ cleanup_calls' =
                   CleanupCallsAfter(completed_tickers, result, cleanupOk)
            /\ log' = log \o FinalLog(result, cleanupOk)
       ELSE UNCHANGED <<batch_counter, archive_calls, cleanup_calls, log>>
    /\ UNCHANGED <<config, submitted, task, completed, collected,
                   successful_downloads, failed_companies, completed_tickers,
                   env, aside>>

\* The final log entry, the end of both with-blocks, progress_bar.finish and
\* the return of (successful_downloads, failed_companies)
Finalize ==
    /\ pc = "finalize"
    /\ pc' = "done"
    /\ log' = Append(log, LogEntry("Download Summary", batch_counter))
    /\ UNCHANGED <<config, submitted, task, completed, collected,
                   successful_downloads, failed_companies, completed_tickers,
                   batch_counter, archive_calls, cleanup_calls, env, aside>>

Next ==
    \/ MainStart
    \/ Initialize
    \/ Submit
    \/ \E i \in Entities : TaskStart(i)
    \/ \E i \in Entities : TaskInit(i)
    \/ \E i \in Entities : TaskYear(i)
    \/ \E i \in Entities : TaskComplete(i)
    \/ \E i \in Entities : Collect(i)
    \/ Flush
    \/ Finalize
    \/ MainExit

Spec == Init /\ [][Next]_vars

\* The steps of main and of process_companies_parallel, which run in the
\* main thread, and the steps of the task of entity i, which run in a thread
\* of the pool
MainThread ==
    \/ MainStart
    \/ Initialize
    \/ Submit
    \/ \E i \in Entities : Collect(i)
    \/ Flush
    \/ Finalize
    \/ MainExit

TaskThread(i) ==
    \/ TaskStart(i)
    \/ TaskInit(i)
    \/ TaskYear(i)
    \/ TaskComplete(i)

FairInit == Init /\ Len(companies_to_fetch) <= MaxFairEntities

\* Every thread that can take a step takes one in the end: the main thread
\* is scheduled, and every call a task makes returns or raises
FairSpec ==
    /\ FairInit
    /\ [][Next]_vars
    /\ WF_vars(MainThread)
    /\ \A i \in 1..MaxFairEntities : WF_vars(TaskThread(i))

\* ------------------------------------------------------------- ProgressBar
\* The arguments update is called with: None or a count
Counts == {NoCount} \cup (0..(MaxCallers * MaxCalls))

\* Variant: the with statement does not wait for the lock
Acquirable_Always(l) == TRUE

\* with self.lock: the caller goes on when nobody holds the lock
Acquirable(l) == l = Free

\* update(completed_count, message): entering the with block
UpdateEnter(c, cnt) ==
    /\ call[c].pc = "idle"
    /\ call[c].calls < MaxCalls
    /\ Acquirable(lock)
    /\ lock' = c
    /\ call' = [call EXCEPT ![c] = [pc |-> "locked", count |-> cnt,
                                    read |-> 0, calls |-> @.calls + 1]]
    /\ applied' = Append(applied, cnt)
    /\ UNCHANGED <<current, screen, besideProgress>>

\* self.current = completed_count
UpdateSet(c) ==
    /\ call[c].pc = "locked"
    /\ call[c].count # NoCount
    /\ current' = call[c].count
    /\ call' = [call EXCEPT ![c].pc = "stored"]
    /\ UNCHANGED <<lock, screen, applied, besideProgress>>

\* self.current += 1: the load ...
UpdateLoad(c) ==
    /\ call[c].pc = "locked"
    /\ call[c].count = NoCount
    /\ call' = [call EXCEPT ![c].pc = "loaded", ![c].read = current]
    /\ UNCHANGED <<lock, current, screen, applied, besideProgress>>

\* ... and the store
UpdateStore(c) ==
    /\ call[c].pc = "loaded"
    /\ current' = call[c].read + 1
    /\ call' = [call EXCEPT ![c].pc = "stored"]
    /\ UNCHANGED <<lock, screen, applied, besideProgress>>

\* print(progress_line): the line shows self.current as it is now
UpdateRender(c) ==
    /\ call[c].pc = "stored"
    /\ screen' = Append(screen, [by |-> c, line |-> "progress",
                                 current |-> current])
    /\ call' = [call EXCEPT ![c].pc = "printed"]
    /\ UNCHANGED <<lock, current, applied, besideProgress>>

\* finish(message): entering the with block
FinishEnter(c) ==
    /\ call[c].pc = "idle"
    /\ call[c].calls < MaxCalls
    /\ Acquirable(lock)
    /\ lock' = c
    /\ call' = [call EXCEPT ![c] = [pc |-> "finishing", count |-> NoCount,
                                    read |-> 0, calls |-> @.calls + 1]]
    /\ UNCHANGED <<current, screen, applied, besideProgress>>

\* print(message in elapsed)
FinishRender(c) ==
    /\ call[c].pc = "finishing"
    /\ screen' = Append(screen, [by |-> c, line |-> "finish",
                                 current |-> current])
    /\ call' = [call EXCEPT ![c].pc = "printed"]
    /\ UNCHANGED <<lock, current, applied, besideProgress>>

\* Leaving the with block releases the lock
Leave(c) ==
    /\ call[c].pc = "printed"
    /\ lock' = Free
    /\ call' = [call EXCEPT ![c].pc = "idle"]
    /\ UNCHANGED <<current, screen, applied, besideProgress>>

\* Everything of Spec at rest: no entities, nothing started
MainIdle ==
    /\ companies_to_fetch = <<>>
    /\ argv = [workers |-> BadArg, batch |-> BadArg]
    /\ exit_code = NoExit
    /\ run_dir = FALSE
    /\ warned = FALSE
    /\ pool = 0
    /\ batch_size = 0
    /\ num_workers = 0
    /\ submitted = 0
    /\ task = <<>>
    /\ pc = "none"
    /\ completed = 0
    /\ collected = <<>>
    /\ successful_downloads = 0
    /\ failed_companies = <<>>
    /\ completed_tickers = <<>>
    /\ batch_counter = 0
    /\ archive_calls = <<>>
    /\ cleanup_calls = <<>>
    /\ log = <<>>

ProgressInit == MainIdle /\ AsideIdle

ProgressNext ==
    \/ \E c \in Callers, cnt \in Counts : UpdateEnter(c, cnt)
    \/ \E c \in Callers : UpdateSet(c)
    \/ \E c \in Callers : UpdateLoad(c)
    \/ \E c \in Callers : UpdateStore(c)
    \/ \E c \in Callers : UpdateRender(c)
    \/ \E c \in Callers : FinishEnter(c)
    \/ \E c \in Callers : FinishRender(c)
    \/ \E c \in Callers : Leave(c)

ProgressSpec == ProgressInit /\ [][ProgressNext]_vars

\* ----------------------------------------------------------------- run log
\* A line as it lands in the file
LogLine(t, kind, n, k) == [by |-> t, kind |-> kind, entry |-> n, part |-> k]

\* CompanyDownloadWorker.log_progress: progress_logger.write(...)
LogProgressWrite(w) ==
    /\ writer[w].pc = "idle"
    /\ writer[w].entries < MaxCalls
    /\ logfile' = Append(logfile,
                         LogLine(w, "Worker", writer[w].entries + 1, 1))
    /\ writer' = [writer EXCEPT ![w] = [pc |-> "written", kind |-> "Worker",
                                        part |-> 1, entries |-> @.entries + 1]]
    /\ UNCHANGED besideLog

\* ... and progress_logger.flush()
LogProgressFlush(w) ==
    /\ writer[w].pc = "written"
    /\ writer' = [writer EXCEPT ![w].pc = "idle"]
    /\ UNCHANGED <<logfile, besideLog>>

\* The entries of the collection loop and the number of write calls each
\* is made of: ARCHIVED has three, ARCHIVE ERROR, Completed and Exception one
LoopEntries == {"ARCHIVED", "ARCHIVE ERROR", "Completed", "Exception"}

Writes(kind) == IF kind = "ARCHIVED" THEN 3 ELSE 1

\* The loop's first progress_logger.write of an entry
LoopWriteFirst(kind) ==
    /\ writer[Orchestrator].pc = "idle"
    /\ writer[Orchestrator].entries < MaxCalls
    /\ logfile' = Append(logfile,
           LogLine(Orchestrator, kind, writer[Orchestrator].entries + 1, 1))
    /\ writer' = [writer EXCEPT ![Orchestrator] =
                      [pc |-> "written", kind |-> kind, part |-> 1,
                       entries |-> @.entries + 1]]
    /\ UNCHANGED besideLog

\* ... its further write calls
LoopWriteMore ==
    LET me == writer[Orchestrator] IN
    /\ me.pc = "written"
    /\ me.part < Writes(me.kind)
    /\ logfile' = Append(logfile,
           LogLine(Orchestrator, me.kind, me.entries, me.part + 1))
    /\ writer' = [writer EXCEPT ![Orchestrator].part = @ + 1]
    /\ UNCHANGED besideLog

\* ... and its progress_logger.flush()
LoopFlush ==
    LET me == writer[Orchestrator] IN
    /\ me.pc = "written"
    /\ me.part = Writes(me.kind)
    /\ writer' = [writer EXCEPT ![Orchestrator].pc = "idle"]
    /\ UNCHANGED <<logfile, besideLog>>

LogInit == MainIdle /\ AsideIdle

LogNext ==
    \/ \E w \in WorkerThreads : LogProgressWrite(w)
    \/ \E w \in WorkerThreads : LogProgressFlush(w)
    \/ \E kind \in LoopEntries : LoopWriteFirst(kind)
    \/ LoopWriteMore
    \/ LoopFlush

LogSpec == LogInit /\ [][LogNext]_vars

\* ------------------------------------- download_company_filings in detail
\* Years are numbered within the window: 1 is current_year - years_to_fetch
\* + 1 and MaxWindow is current_year. get_filings(year = y) returns filings
\* of year y and, by bleed, of the year after it.
Window == 1..MaxWindow

Filings == [year : 1..(MaxWindow + 1), acc : 1..MaxAccession]

Order(f) == f.year * (MaxAccession + 1) + f.acc

\* The listings the backend may hold for year y: up to MaxFilings filings,
\* no filing twice
Listings(y) ==
    {l \in UNION {[1..n -> {f \in Filings : f.year \in {y, y + 1}}] :
                     n \in 0..MaxFilings} :
        \A k \in 1..(Len(l) - 1) : Order(l[k]) < Order(l[k + 1])}

\* os.path.join(root_dir, ticker, str(filing_year), form_type) and, below
\* it, accession_no.html
Dir(f) == f.year
Path(f) == <<f.year, f.acc>>

\* The filings the backend returns for the year they belong to
Matching(y) == {k \in DOMAIN backend[y] : backend[y][k].year = y}

\* The files a run without failures leaves on disk
WantedPaths ==
    UNION {{Path(backend[y][k]) : k \in Matching(y)} : y \in Window}

NewJob(run, faults) ==
    [IdleJob EXCEPT !.pc = "start", !.run = run, !.ticker = 1,
                    !.faults = faults]

\* A backend, a disk that holds some of the entity's files from an earlier
\* run, all of them whole, and the task about to be called
TaskInitial ==
    /\ backend \in {b \in [Window -> UNION {Listings(y) : y \in Window}] :
                       \A y \in Window : b[y] \in Listings(y)}
    /\ \E fs \in SUBSET WantedPaths :
          storage = [dirs |-> {p[1] : p \in fs}, files |-> fs, partial |-> {}]
    /\ job = NewJob(1, 0)
    /\ events = <<>>
    /\ at_start = <<storage.files>>

\* A call the task made: what, in which run and iteration, whether it
\* returned (ok) or raised, and the file it was about
Event(op, ok, path) ==
    [run |-> job.run, op |-> op, year |-> job.year + 1, doc |-> job.doc,
     ok |-> ok, path |-> path]

NoPath == <<>>

\* The calls that raise are counted: at most MaxFaults in a behaviour
Faults(oks) == Cardinality({k \in DOMAIN oks : ~oks[k]})
MayFail(oks) == job.faults + Faults(oks) <= MaxFaults
Counted(t, oks) == [t EXCEPT !.faults = @ + Faults(oks)]

\* The events of a failed call followed by its handler's log_progress calls
HandlerEvents(op, logOks) ==
    <<Event(op, FALSE, NoPath)>> \o
    [k \in DOMAIN logOks |-> Event("log", logOks[k], NoPath)]

\* The next iteration of `for year in years`, or the end of the loop
NextYear(t) ==
    [t EXCEPT !.year = @ + 1, !.doc = 0,
              !.pc = IF t.year + 1 >= MaxWindow THEN "complete" ELSE "list"]

\* The next iteration of `for filing in filings`, or the end of that loop
NextFiling(t) ==
    IF t.doc < Len(backend[t.year + 1])
    THEN [t EXCEPT !.doc = @ + 1, !.pc = "doc"]
    ELSE NextYear(t)

\* Variant: the handler of a document's failure leaves the year's loop
InnerExcept_LeavesYear(t) == NextYear(Failing(t, "document"))

\* except Exception: pass, around html() and the write of one document
InnerExcept(t) == NextFiling(Failing(t, "document"))

\* Variant: a failure in a year's body ends the task with a failure
YearExcept_Propagates(t, kind) == Returned(Failing(t, kind), FALSE, t.ticker)

\* except Exception: pass, around the body of one year
YearExcept(t, kind) == NextYear(Failing(t, kind))

\* Variant: every filing of the listing is taken
YearMatches_Always(f, y) == TRUE

\* filing.filing_date.year against the year of the iteration
YearMatches(f, y) == f.year = y

\* Variant: the file is taken as absent whatever is on disk
PathExists_Never(fs, p) == FALSE

\* os.path.exists(file_path)
PathExists(fs, p) == p \in fs

\* The ticker check and log_progress("Starting download ..."), outside the try
JobStart ==
    /\ job.pc = "start"
    /\ \E logOk \in BOOLEAN :
          /\ MayFail(<<logOk>>)
          /\ job' = (IF logOk THEN [job EXCEPT !.pc = "identity"]
                     ELSE Raised(Failing(Counted(job, <<logOk>>), "log")))
          /\ events' = Append(events, Event("log", logOk, NoPath))
    /\ UNCHANGED <<backend, storage, at_start, besideTask>>

\* set_identity(self.identity)
JobIdentity ==
    /\ job.pc = "identity"
    /\ \/ /\ job' = [job EXCEPT !.pc = "company"]
          /\ events' = Append(events, Event("identity", TRUE, NoPath))
       \/ \E logOk \in BOOLEAN :
             /\ MayFail(<<FALSE, logOk>>)
             /\ job' = OuterExcept(
                           Failing(Counted(job, <<FALSE, logOk>>), "identity"),
                           job.ticker, logOk)
             /\ events' = events \o HandlerEvents("identity", <<logOk>>)
    /\ UNCHANGED <<backend, storage, at_start, besideTask>>

\* Company(ticker)
JobCompany ==
    /\ job.pc = "company"
    /\ \/ /\ job' = [job EXCEPT !.pc = "list"]
          /\ events' = Append(events, Event("company", TRUE, NoPath))
       \/ \E logOk, logOk2 \in BOOLEAN :
             LET logs == IF logOk THEN <<logOk>> ELSE <<logOk, logOk2>> IN
             /\ logOk => logOk2
             /\ MayFail(<<FALSE>> \o logs)
             /\ job' = CompanyExcept(
                           Failing(Counted(job, <<FALSE>> \o logs), "company"),
                           job.ticker, logOk, logOk2)
             /\ events' = events \o HandlerEvents("company", logs)
    /\ UNCHANGED <<backend, storage, at_start, besideTask>>

\* company.get_filings(form, year)
JobList ==
    /\ job.pc = "list"
    /\ \E ok \in BOOLEAN :
          /\ MayFail(<<ok>>)
          /\ job' = (IF ~ok THEN YearExcept(Counted(job, <<ok>>), "listing")
                     ELSE IF backend[job.year + 1] = <<>> THEN NextYear(job)
                     ELSE [job EXCEPT !.doc = 1, !.pc = "doc"])
          /\ events' = Append(events, Event("list", ok, NoPath))
    /\ UNCHANGED <<backend, storage, at_start, besideTask>>

\* One filing of the listing: the year check, os.makedirs(dir_path,
\* exist_ok=True) and os.path.exists(file_path). makedirs is inside the
\* year's try only.
JobFiling ==
    /\ job.pc = "doc"
    /\ LET f == backend[job.year + 1][job.doc] IN
       IF ~YearMatches(f, job.year + 1)
       THEN /\ job' = NextFiling(job)
            /\ events' = Append(events, Event("discard", TRUE, Path(f)))
            /\ UNCHANGED storage
       ELSE \E ok \in BOOLEAN :
            /\ MayFail(<<ok>>)
            /\ IF ~ok
               THEN /\ job' = YearExcept(Counted(job, <<ok>>), "document")
                    /\ events' = Append(events, Event("makedirs", FALSE, Path(f)))
                    /\ UNCHANGED storage
               ELSE /\ storage' = [storage EXCEPT !.dirs = @ \cup {Dir(f)}]
                    /\ IF PathExists(storage.files, Path(f))
                       THEN /\ job' = NextFiling(job)
                            /\ events' = Append(events,
                                              Event("exists", TRUE, Path(f)))
                       ELSE /\ job' = [job EXCEPT !.pc = "fetch"]
                            /\ events' = Append(events,
                                              Event("absent", TRUE, Path(f)))
    /\ UNCHANGED <<backend, at_start, besideTask>>

\* html_content = filing.html()
JobFetch ==
    /\ job.pc = "fetch"
    /\ LET f == backend[job.year + 1][job.doc] IN
       \E ok \in BOOLEAN :
          /\ MayFail(<<ok>>)
          /\ job' = (IF ok THEN [job EXCEPT !.pc = "write"]
                     ELSE InnerExcept(Counted(job, <<ok>>)))
          /\ events' = Append(events, Event("fetch", ok, Path(f)))
    /\ UNCHANGED <<backend, storage, at_start, besideTask>>

\* with open(file_path, "w") as f: f.write(html_content); total_filings += 1
\* open may raise and leave nothing; write may raise after open has made
\* the file, which then stays on disk cut short
WriteOutcomes == {"written", "open", "write"}

JobWrite ==
    /\ job.pc = "write"
    /\ LET f == backend[job.year + 1][job.doc] IN
       \E outcome \in WriteOutcomes :
          LET ok == outcome = "written" IN
          /\ MayFail(<<ok>>)
          /\ job' = (IF ok
                     THEN NextFiling([job EXCEPT !.total_filings = @ + 1])
                     ELSE InnerExcept(Counted(job, <<ok>>)))
          /\ storage' =
                IF outcome = "open" THEN storage
                ELSE [storage EXCEPT
                        !.files = @ \cup {Path(f)},
                        !.partial = IF ok THEN @ \ {Path(f)}
                                    ELSE @ \cup {Path(f)}]
          /\ events' = Append(events, Event(outcome, ok, Path(f)))
    /\ UNCHANGED <<backend, at_start, besideTask>>

\* log_progress("Completed ..."); return True, ticker, success_msg
JobComplete ==
    /\ job.pc = "complete"
    /\ \E logOk, logOk2 \in BOOLEAN :
          LET logs == IF logOk THEN <<logOk>> ELSE <<logOk, logOk2>> IN
          /\ logOk => logOk2
          /\ MayFail(logs)
          /\ job' = (IF logOk THEN Returned(job, TRUE, job.ticker)
                     ELSE OuterExcept(Failing(Counted(job, logs), "log"),
                                      job.ticker, logOk2))
          /\ events' = events \o
                [k \in DOMAIN logs |-> Event("log", logs[k], NoPath)]
    /\ UNCHANGED <<backend, storage, at_start, besideTask>>

\* The task is called again for the same entity on the disk as it is now
JobRerun ==
    /\ job.pc \in {"returned", "raised"}
    /\ job.run < MaxRuns
    /\ job' = NewJob(job.run + 1, job.faults)
    /\ at_start' = Append(at_start, storage.files)
    /\ UNCHANGED <<backend, storage, events, besideTask>>

TaskSpecInit ==
    MainIdle /\ ProgressIdle /\ LogIdle /\ ArchiverIdle /\ TaskInitial

TaskNext ==
    \/ JobStart
    \/ JobIdentity
    \/ JobCompany
    \/ JobList
    \/ JobFiling
    \/ JobFetch
    \/ JobWrite
    \/ JobComplete
    \/ JobRerun

TaskSpec == TaskSpecInit /\ [][TaskNext]_vars

\* ------------------------------------------------- BatchArchiver in detail
Tickers == 1..MaxEntities

\* The lists the methods are called with: tickers, none twice
TickerLists ==
    {l \in UNION {[1..n -> Tickers] : n \in 1..MaxBatchSize} : NoDup(l)}

\* Variant: an entity without a subtree makes archive_batch raise
ArchiveResult_Strict(ids, d, ioOk) ==
    IF ~d.data_dir THEN "none"
    ELSE IF ~ioOk \/ ~(Range(ids) \subseteq d.subtrees) THEN "raise"
    ELSE "ok"

\* How archive_batch ends: None when data_dir does not exist, an exception
\* when tarfile or getsize raises, (archive_path, archive_size) otherwise
ArchiveResult(ids, d, ioOk) ==
    IF ~d.data_dir THEN "none"
    ELSE IF ~ioOk THEN "raise"
    ELSE "ok"

\* tar.add for every ticker whose directory exists
Members(ids, d) == Range(ids) \cap d.subtrees

\* archive_batch(completed_companies)
ArchiveBatch(ids, ioOk) ==
    LET number == CounterAfterArchive(archiver.batch_counter)
        result == ArchiveResult(ids, disk, ioOk)
    IN /\ Len(calls) < MaxArchiverCalls
       /\ archiver' = [archiver EXCEPT !.batch_counter = number]
       /\ tars' = (IF result = "none" THEN tars
                   ELSE Append(tars, [number |-> number,
                                      whole |-> result = "ok",
                                      members |-> IF result = "ok"
                                                  THEN Members(ids, disk)
                                                  ELSE {}]))
       /\ calls' = Append(calls, [op |-> "archive_batch", ids |-> ids,
                                  result |-> result, io_ok |-> ioOk,
                                  number |-> number, before |-> disk,
                                  after |-> disk])
       /\ UNCHANGED <<disk, besideArchiver>>

\* The tickers whose directory the loop of cleanup_archived_data removes
\* when rmtree raises at the failAt-th ticker (0: it does not raise)
Removed(ids, d, failAt) ==
    {ids[j] : j \in 1..(IF failAt = 0 THEN Len(ids) ELSE failAt - 1)}
        \cap d.subtrees

\* cleanup_archived_data(completed_companies); rmtree is called, and can
\* raise, only for a ticker whose directory exists
CleanupArchivedData(ids, failAt) ==
    /\ Len(calls) < MaxArchiverCalls
    /\ failAt <= Len(ids)
    /\ failAt # 0 => ids[failAt] \in disk.subtrees
    /\ disk' = [disk EXCEPT !.subtrees = @ \ Removed(ids, disk, failAt)]
    /\ calls' = Append(calls, [op |-> "cleanup_archived_data", ids |-> ids,
                               result |-> IF failAt = 0 THEN "ok" ELSE "raise",
                               io_ok |-> failAt = 0, number |-> 0,
                               before |-> disk, after |-> disk'])
    /\ UNCHANGED <<archiver, tars, besideArchiver>>

\* Any disk: data_dir may be missing; if it exists, any of the tickers may
\* have a subtree in it
ArchiverInitial ==
    /\ disk \in {d \in [data_dir : BOOLEAN, subtrees : SUBSET Tickers] :
                    ~d.data_dir => d.subtrees = {}}
    /\ archiver = [batch_counter |-> 0]
    /\ tars = <<>>
    /\ calls = <<>>

ArchiverInit ==
    MainIdle /\ ProgressIdle /\ LogIdle /\ TaskIdle /\ ArchiverInitial

ArchiverNext ==
    \/ \E ids \in TickerLists, ioOk \in BOOLEAN : ArchiveBatch(ids, ioOk)
    \/ \E ids \in TickerLists, failAt \in 0..MaxBatchSize :
          CleanupArchivedData(ids, failAt)

ArchiverSpec == ArchiverInit /\ [][ArchiverNext]_vars

\* ------------------------------------------------------------- properties
Drained == pc \in {"flush", "finalize", "done", "exit"}

IsSuccess(i) == task[i].pc = "returned" /\ task[i].success

\* The identifier the orchestrator records for entity i's outcome
OutcomeTicker(i) ==
    IF task[i].pc = "raised" THEN TickerOrUnknown(i) ELSE task[i].ticker

SuccessCount == Cardinality({i \in Entities : IsSuccess(i)})

\* Identifiers of the successful (failing) entities, in collection order
SuccessIds ==
    LET sel == SelectSeq(collected, LAMBDA i : IsSuccess(i))
    IN [k \in DOMAIN sel |-> OutcomeTicker(sel[k])]

FailureIds ==
    LET sel == SelectSeq(collected, LAMBDA i : ~IsSuccess(i))
    IN [k \in DOMAIN sel |-> OutcomeTicker(sel[k])]

\* The archives produced: the calls of archive_batch that returned a pair
Produced == SelectSeq(archive_calls, LAMBDA a : a.result = "ok")

DrainCalls == SelectSeq(archive_calls, LAMBDA a : a.phase = "drain")

AllStepsOk == \A j \in DOMAIN archive_calls : archive_calls[j].step_ok

AllTasksSucceeded == \A i \in Entities : IsSuccess(i)

CeilDiv(a, b) == (a + b - 1) \div b

\* C1: every cleanup_archived_data(ids) call directly follows an archive_batch
\* call of the same step that returned a pair for the same id list; a call
\* that raised or returned None is followed by no cleanup.
C1_CleanupOnlyAfterArchive ==
    \A k \in DOMAIN cleanup_calls :
        LET c == cleanup_calls[k] IN
        /\ c.after \in DOMAIN archive_calls
        /\ archive_calls[c.after].result = "ok"
        /\ archive_calls[c.after].ids = c.ids

C1_Witness ==
    /\ \E k \in DOMAIN cleanup_calls : cleanup_calls[k].after > 1
    /\ \E j \in DOMAIN archive_calls : archive_calls[j].result = "raise"
    /\ \E j \in DOMAIN archive_calls : archive_calls[j].result = "none"

\* C2: every entity's outcome is collected exactly once, whatever the order
\* of completion, and the counter `completed` is N when draining has ended.
C2_EachOutcomeOnce ==
    /\ NoDup(collected)
    /\ Range(collected) \subseteq Entities
    /\ completed = Len(collected)
    /\ successful_downloads + Len(failed_companies) = Len(collected)
    /\ Drained => (completed = N /\ Range(collected) = Entities)

C2_Witness ==
    /\ pc = "done"
    /\ N >= 3
    /\ collected[1] = N
    /\ collected[N] = 1

\* C3: the archives produced carry the numbers 1, 2, 3, ... in the order of
\* their production, without gaps, whatever the archive attempts did.
C3_BatchNumbersGapless ==
    \A k \in DOMAIN Produced : Produced[k].number = k

\* C4: the accumulator is shorter than batch_size right after every archive
\* that the threshold triggered (taken here as: an archive step that ran to
\* its end), and its length is never negative.
C4_AccumulatorBelowBatchSize ==
    /\ Len(completed_tickers) >= 0
    /\ \A j \in DOMAIN archive_calls :
          LET a == archive_calls[j] IN
          (a.phase = "drain" /\ a.step_ok) => Len(a.acc_after) < batch_size

\* C5: when archive_batch fails for a triggered batch, the batch stays at the
\* head of the accumulator, no cleanup is called for it, an ARCHIVE ERROR
\* entry is logged, and the loop still collects every remaining outcome.
C5_FailedArchiveKeepsBatch ==
    \A j \in DOMAIN archive_calls :
        LET a == archive_calls[j] IN
        (a.phase = "drain" /\ a.result # "ok") =>
            /\ a.ids = Take(a.acc_after, batch_size)
            /\ Len(a.acc_after) >= batch_size
            /\ \A k \in DOMAIN cleanup_calls : cleanup_calls[k].after # j
            /\ \E e \in DOMAIN log :
                  log[e] = LogEntry("ARCHIVE ERROR", a.number)
            /\ \E e \in DOMAIN log : log[e] = LogEntry("Completed", a.at)
            /\ (~Drained => pc = "drain")
            /\ (Drained => Len(collected) = N)

C5_Witness ==
    /\ pc = "done"
    /\ \E j \in DOMAIN archive_calls :
          /\ archive_calls[j].phase = "drain"
          /\ archive_calls[j].result # "ok"
          /\ archive_calls[j].at < completed

C8_OneRemainderArchive ==
    (pc = "done" /\ 0 < SuccessCount /\ SuccessCount < batch_size
                /\ SuccessCount < N) =>
        /\ DrainCalls = <<>>
        /\ Len(Produced) = 1
        /\ Produced[1].phase = "final"
        /\ Produced[1].ids = SuccessIds
        /\ failed_companies = FailureIds

\* C8 as amended: ... no archive is attempted during draining, exactly one
\* archive attempt is made, at run end, on exactly the S successful ids; it
\* produces the one remainder archive when it succeeds and none when it
\* fails; the failed list holds exactly the failing identifiers.
C8_OneRemainderAttempt ==
    (pc = "done" /\ 0 < SuccessCount /\ SuccessCount < batch_size
                /\ SuccessCount < N) =>
        /\ DrainCalls = <<>>
        /\ Len(archive_calls) = 1
        /\ archive_calls[1].phase = "final"
        /\ archive_calls[1].ids = SuccessIds
        /\ Len(SuccessIds) = SuccessCount
        /\ Len(Produced) = (IF archive_calls[1].result = "ok" THEN 1 ELSE 0)
        /\ failed_companies = FailureIds
        /\ Len(failed_companies) = N - SuccessCount

C8_Witness ==
    /\ pc = "done" /\ 0 < SuccessCount /\ SuccessCount < batch_size
    /\ \E i \in Entities : task[i].fails = {"company"}
    /\ Len(Produced) = 1

\* C9: when the identifiers of the entity list are pairwise distinct, the
\* accumulator never holds an identifier twice, also after a failed archive.
C9_AccumulatorNoDuplicates ==
    NoDup(companies_to_fetch) => NoDup(completed_tickers)

C9_Witness ==
    /\ NoDup(companies_to_fetch)
    /\ Len(completed_tickers) > batch_size
    /\ \E j \in DOMAIN archive_calls : ~archive_calls[j].step_ok

\* C10: a task in which no log_progress call failed ends by returning a
\* record (success flag, identifier), whatever failed in the backend or the
\* storage: identity setup, entity initialization, listing, document.
C10_TaskReturnsRecord ==
    \A i \in Entities :
        (Finished(i) /\ "log" \notin task[i].fails) =>
            /\ task[i].pc = "returned"
            /\ task[i].success \in BOOLEAN
            /\ task[i].ticker = TickerOrUnknown(i)

C10_Witness ==
    /\ \E i \in Entities :
          task[i].pc = "returned" /\ task[i].fails = {"identity"}
    /\ \E i \in Entities :
          task[i].pc = "returned" /\ task[i].fails = {"company"}
    /\ \E i \in Entities :
          /\ task[i].pc = "returned"
          /\ task[i].fails \cap {"listing", "document"} # {}
          /\ "log" \notin task[i].fails

\* C13: collecting a task whose future raises appends the entity's
\* identifier to failed_companies, writes an Exception entry, leaves the
\* accumulator, the success count and the archiver alone, and the loop goes
\* on: it ends only when every outcome has been collected.
C13_RaisedTaskIsFailedEntity ==
    /\ [][\A i \in Entities :
            (pc = "drain" /\ task[i].pc = "raised"
                /\ collected' = Append(collected, i)) =>
                /\ failed_companies' =
                       Append(failed_companies, companies_to_fetch[i])
                /\ completed_tickers' = completed_tickers
                /\ successful_downloads' = successful_downloads
                /\ archive_calls' = archive_calls
                /\ log' = Append(log, LogEntry("Exception", completed'))
                /\ pc' = (IF Len(collected') = N THEN "flush" ELSE "drain")]_vars
    /\ [](Drained => Len(collected) = N)

C13_Witness ==
    /\ pc = "exit"
    /\ N >= 3
    /\ task[collected[1]].pc = "raised"
    /\ IsSuccess(collected[2])
    /\ task[collected[3]].pc = "returned"

\* C15: main exits with status 0 exactly when the failed list is empty,
\* which is exactly when every entity succeeded, and with status 1 otherwise;
\* it exits only after every entity has been collected.
C15_ExitStatus ==
    pc = "exit" =>
        /\ exit_code \in {0, 1}
        /\ exit_code = 0 <=> failed_companies = <<>>
        /\ exit_code = 0 <=> AllTasksSucceeded
        /\ exit_code # 0 <=> (\E i \in Entities : ~IsSuccess(i))
        /\ Len(collected) = N
        /\ Range(collected) = Entities

C15_Witness ==
    /\ pc = "exit"
    /\ exit_code = 1
    /\ N >= 2
    /\ ~IsSuccess(collected[1])
    /\ \A k \in 2..N : IsSuccess(collected[k])

\* The inputs C16 is about
InvalidInput ==
    \/ companies_to_fetch = <<>>
    \/ ~argv.workers.ok
    \/ argv.workers.v < 1
    \/ ~argv.batch.ok
    \/ argv.batch.v < 1

\* C16: with an empty entity list, or a worker count or batch size that is
\* not a positive integer, main exits with a non-zero status and nothing has
\* been dispatched, no archive directory made and no archive attempted.
C16_InvalidInputAborts ==
    /\ (InvalidInput /\ pc # "main") =>
          /\ pc = "aborted"
          /\ exit_code # 0
          /\ exit_code # NoExit
    /\ InvalidInput =>
          /\ submitted = 0
          /\ \A i \in Entities : task[i].pc = "queued"
          /\ ~run_dir
          /\ archive_calls = <<>>
          /\ batch_counter = 0

C16_Witness ==
    /\ pc = "aborted"
    /\ companies_to_fetch # <<>>
    /\ argv.workers.ok /\ argv.workers.v >= 1
    /\ argv.batch.ok /\ argv.batch.v = 0

FinalCalls == SelectSeq(archive_calls, LAMBDA a : a.phase = "final")

\* C17: once every outcome is collected, a non-empty accumulator gets
\* exactly one final archive attempt, on the whole accumulator, which has
\* fewer than batch_size ids; an empty accumulator gets none.
C17_OneFinalAttemptBelowBatchSize ==
    pc \in {"finalize", "done", "exit"} =>
        IF completed_tickers = <<>>
        THEN FinalCalls = <<>>
        ELSE /\ Len(FinalCalls) = 1
             /\ FinalCalls[1].ids = completed_tickers
             /\ Len(FinalCalls[1].ids) < batch_size

\* Identifiers of the successes among the first k collected outcomes
SuccessIdsUpTo(k) ==
    LET sel == SelectSeq(SubSeq(collected, 1, k), LAMBDA i : IsSuccess(i))
    IN [j \in DOMAIN sel |-> OutcomeTicker(sel[j])]

\* Number of archive steps of the loop that ran to their end before call j
OkBefore(j) ==
    Cardinality({m \in 1..(j - 1) :
        archive_calls[m].phase = "drain" /\ archive_calls[m].step_ok})

\* C19: every batch archived during draining is the first batch_size ids of
\* the accumulator, and the accumulator is the sequence of successes in the
\* order of collection less the batches already removed: the batch does
\* not depend on the entities' places in the input list.
C19_BatchInCompletionOrder ==
    \A j \in DOMAIN archive_calls :
        LET a == archive_calls[j] IN
        a.phase = "drain" =>
            /\ Len(a.ids) = batch_size
            /\ a.ids = SubSeq(SuccessIdsUpTo(a.at),
                              OkBefore(j) * batch_size + 1,
                              OkBefore(j) * batch_size + batch_size)

C19_Witness ==
    /\ NoDup(companies_to_fetch)
    /\ \E j \in DOMAIN archive_calls :
          /\ archive_calls[j].phase = "drain"
          /\ archive_calls[j].result = "ok"
          /\ Len(archive_calls[j].ids) >= 2
          /\ archive_calls[j].ids[1] > archive_calls[j].ids[2]

\* C20: when archive_batch of a triggered archive step returns an archive,
\* the step removes the first batch_size ids from the accumulator and keeps
\* the ids behind them in their order (the accumulator before the step is
\* the successes collected so far less the batches removed earlier); the
\* success count and the failed list are what the collections made them.
C20_ArchivedBatchRemoved ==
    /\ \A j \in DOMAIN archive_calls :
          LET a == archive_calls[j]
              all == SuccessIdsUpTo(a.at)
              acc == SubSeq(all, OkBefore(j) * batch_size + 1, Len(all))
          IN (a.phase = "drain" /\ a.result = "ok") =>
                /\ a.ids = Take(acc, batch_size)
                /\ a.acc_after = Drop(acc, batch_size)
    /\ successful_downloads = Len(SuccessIdsUpTo(Len(collected)))
    /\ failed_companies = FailureIds

\* Callers inside the with block of update or finish
InRegion == {c \in Callers : call[c].pc # "idle"}

\* self.current after the first k update calls, taken in lock order
RECURSIVE ValueAfter(_)
ValueAfter(k) ==
    IF k = 0 THEN 0
    ELSE IF applied[k] = NoCount THEN ValueAfter(k - 1) + 1
    ELSE applied[k]

ProgressLines == SelectSeq(screen, LAMBDA l : l.line = "progress")

\* C18: at most one caller is inside the with block of update or finish, and
\* it holds the lock; no update is lost: with nobody inside, current is the
\* result of applying the update calls one after the other, and the k-th
\* progress line shows the counter as the k-th update left it.
C18_ProgressBarExclusive ==
    /\ Cardinality(InRegion) <= 1
    /\ \A c \in InRegion : lock = c
    /\ InRegion = {} => lock = Free /\ current = ValueAfter(Len(applied))
    /\ \A k \in DOMAIN ProgressLines : ProgressLines[k].current = ValueAfter(k)

C18_Witness ==
    /\ InRegion = {}
    /\ Len(applied) = MaxCallers * MaxCalls
    /\ \A k \in DOMAIN applied : applied[k] = NoCount
    /\ current = MaxCallers * MaxCalls
    /\ \E k \in 1..(Len(screen) - 1) : screen[k].by # screen[k + 1].by

\* Threads between the first write of a log entry and its flush
Writing == {t \in Threads : writer[t].pc # "idle"}

\* C14: at most one thread is inside a write section of the run log (from
\* the first write of an entry to its flush) at any time.
C14_OneLogWriter == Cardinality(Writing) <= 1

\* The calls of run r of the task, and those about filing k of year y
RunEvents(r) == {k \in DOMAIN events : events[k].run = r}

FilingEvents(r, y, k) ==
    {n \in RunEvents(r) : events[n].year = y /\ events[n].doc = k
                            /\ events[n].path # NoPath}

\* The loop over the years of the current run has ended
LoopLeft == job.run >= 1 /\ job.year = MaxWindow

\* makedirs raised for an earlier filing of year y, which ends that year
DirFailedBefore(r, y, k) ==
    \E j \in 1..(k - 1) : \E n \in FilingEvents(r, y, j) :
        events[n].op = "makedirs"

Opened(r) ==
    {events[n].path : n \in {m \in RunEvents(r) :
                               events[m].op \in {"written", "write"}}}

Written(r) ==
    {events[n].path : n \in {m \in RunEvents(r) : events[m].op = "written"}}

FaultFree(r) == \A n \in RunEvents(r) : events[n].ok

\* C12: a run of the task never opens for writing a file that was on disk
\* at its start, and opens no file twice; total_filings is the number of
\* files the run has written so far; a run in which no call raises writes
\* exactly the wanted files that were missing at its start and reports
\* their number; and the run after a run in which no call raised writes
\* nothing.
C12_IdempotentResume ==
    /\ \A r \in 1..job.run :
          /\ Opened(r) \cap at_start[r] = {}
          /\ \A p \in Opened(r) :
                Cardinality({n \in RunEvents(r) :
                    events[n].path = p
                    /\ events[n].op \in {"written", "write"}}) = 1
    /\ job.run >= 1 =>
          job.total_filings =
              Cardinality({n \in RunEvents(job.run) : events[n].op = "written"})
    /\ (job.run >= 1 /\ job.pc = "returned" /\ FaultFree(job.run)) =>
          /\ Written(job.run) = WantedPaths \ at_start[job.run]
          /\ job.total_filings = Cardinality(WantedPaths \ at_start[job.run])
          /\ storage.files = at_start[job.run] \cup WantedPaths
    /\ (job.run >= 2 /\ FaultFree(job.run - 1)) =>
          /\ Opened(job.run) = {}
          /\ job.total_filings = 0
          /\ storage.files = at_start[job.run]

C12_Witness ==
    /\ job.run = 2
    /\ job.pc = "returned"
    /\ FaultFree(1) /\ FaultFree(2)
    /\ at_start[1] # {}
    /\ Cardinality(WantedPaths \ at_start[1]) >= 2
    /\ Written(1) = WantedPaths \ at_start[1]
    /\ at_start[2] = WantedPaths
    /\ \E n \in RunEvents(2) : events[n].op = "exists"

\* Identifiers the orchestrator recorded for the collected failures
FailedEntities == {i \in Range(collected) : ~IsSuccess(i)}

\* C21: the accumulator is the sequence of the collected successes, in
\* collection order, less the batches removed; the failed list is the
\* sequence of the collected reported failures and raised tasks; every list
\* passed to archive_batch or cleanup_archived_data is made of successes;
\* and, when no identifier occurs twice in the input, the identifier of a
\* failed or raised entity is in none of them.
C21_OnlySuccessesAccumulated ==
    /\ completed_tickers =
          Drop(SuccessIdsUpTo(Len(collected)),
               batch_size * Cardinality({j \in DOMAIN archive_calls :
                   archive_calls[j].phase = "drain"
                   /\ archive_calls[j].step_ok}))
    /\ failed_companies = FailureIds
    /\ \A j \in DOMAIN archive_calls :
          Range(archive_calls[j].ids) \subseteq
              Range(SuccessIdsUpTo(archive_calls[j].at))
    /\ \A j \in DOMAIN cleanup_calls :
          Range(cleanup_calls[j].ids) \subseteq Range(SuccessIds)
    /\ NoDup(companies_to_fetch) =>
          \A i \in FailedEntities :
             /\ OutcomeTicker(i) \in Range(failed_companies)
             /\ OutcomeTicker(i) \notin Range(completed_tickers)
             /\ \A j \in DOMAIN archive_calls :
                   OutcomeTicker(i) \notin Range(archive_calls[j].ids)
             /\ \A j \in DOMAIN cleanup_calls :
                   OutcomeTicker(i) \notin Range(cleanup_calls[j].ids)

C21_Witness ==
    /\ pc = "flush"
    /\ NoDup(companies_to_fetch)
    /\ completed_tickers # <<>>
    /\ cleanup_calls # <<>>
    /\ \E i \in FailedEntities : task[i].pc = "returned"
    /\ ~IsSuccess(collected[1])

\* Place of a position of main in the order of the phases
PhaseRank(p) ==
    CASE p = "main" -> 0
      [] p = "aborted" -> 0
      [] p = "init" -> 1
      [] p = "dispatch" -> 2
      [] p = "drain" -> 3
      [] p = "flush" -> 4
      [] p = "finalize" -> 5
      [] p = "done" -> 6
      [] p = "exit" -> 7

SummaryWritten == \E k \in DOMAIN log : log[k].kind = "Download Summary"

\* C25: the orchestrator goes through Initializing, Dispatching, Draining,
\* Flushing, Finalizing, Done one after the other and never back; nothing is
\* collected before every task is submitted, the flush is not made before
\* all N outcomes are collected, and the summary is written only after the
\* flush.
C25_PhasesInOrder ==
    /\ [][PhaseRank(pc') = PhaseRank(pc)
            \/ (PhaseRank(pc') = PhaseRank(pc) + 1 /\ pc' # "aborted")]_vars
    /\ [](collected # <<>> => submitted = N)
    /\ [](PhaseRank(pc) >= 3 => submitted = N)
    /\ [](PhaseRank(pc) >= 4 => Len(collected) = N)
    /\ [](FinalCalls # <<>> => (Len(collected) = N /\ PhaseRank(pc) >= 5))
    /\ [](SummaryWritten <=> PhaseRank(pc) >= 6)
    /\ [](PhaseRank(pc) < 4 => FinalCalls = <<>>)

C25_Witness ==
    /\ pc = "done"
    /\ N >= 2
    /\ FinalCalls # <<>>
    /\ DrainCalls # <<>>
    /\ SummaryWritten

\* The four variables of the collection loop
collection == <<completed_tickers, successful_downloads, failed_companies,
                batch_counter>>

\* C27: a step of a download task leaves the accumulator, the success
\* count, the failed list and the batch counter as they are; they change
\* only in steps of the collection loop and of the flush, which belong to
\* the orchestrator's thread.
C27_CollectionOwnedByOrchestrator ==
    /\ [][task' # task => collection' = collection]_vars
    /\ [][collection' # collection =>
            /\ pc \in {"drain", "flush"}
            /\ task' = task
            /\ (pc = "drain" => Len(collected') = Len(collected) + 1)]_vars

C27_Witness ==
    /\ pc = "drain"
    /\ completed_tickers # <<>>
    /\ failed_companies # <<>>
    /\ batch_counter >= 1
    /\ \E i \in Entities : task[i].pc = "complete"

\* C30: when process_companies_parallel has returned, successes and failures
\* add up to N, each entity is in exactly one of the two groups, and the two
\* counts are the sizes of the groups.
C30_OutcomesPartitionEntities ==
    PhaseRank(pc) >= 6 =>
        /\ successful_downloads + Len(failed_companies) = N
        /\ successful_downloads = Cardinality({i \in Entities : IsSuccess(i)})
        /\ Len(failed_companies) =
               Cardinality({i \in Entities : ~IsSuccess(i)})
        /\ Range(collected) = Entities
        /\ Len(collected) = N

C30_Witness ==
    /\ pc = "done"
    /\ N >= 3
    /\ successful_downloads >= 1
    /\ \E i \in Entities : task[i].pc = "raised"
    /\ \E i \in Entities : task[i].pc = "returned" /\ ~task[i].success

C26_RunReachesDone == (pc = "init") ~> (pc = "done")

C26_Witness ==
    /\ pc = "done"
    /\ N = MaxFairEntities
    /\ num_workers = 1
    /\ \E j \in DOMAIN archive_calls : archive_calls[j].result = "raise"
    /\ \E i \in Entities : task[i].pc = "raised"

FilingOps ==
    {"list", "discard", "makedirs", "exists", "absent", "fetch",
     "written", "open", "write"}

CompanyFailed(r) ==
    \E n \in RunEvents(r) : events[n].op = "company" /\ ~events[n].ok

CompanyBuilt(r) ==
    \E n \in RunEvents(r) : events[n].op = "company" /\ events[n].ok

JobFinished == job.pc \in {"returned", "raised"}

\* C22: in a run in which Company(ticker) raised, the task has ended at
\* once: no listing was requested, no document was looked at, fetched or
\* written, the disk is as at the start of the run, and the outcome is a
\* failure for the task's ticker; only when log_progress raised in both
\* handlers does the exception leave the task instead.
C22_CompanyFailureEndsTask ==
    CompanyFailed(job.run) =>
        /\ JobFinished
        /\ \A n \in RunEvents(job.run) : events[n].op \notin FilingOps
        /\ storage.files = at_start[job.run]
        /\ job.total_filings = 0
        /\ job.pc = "returned" => (~job.success /\ job.ticker = 1)
        /\ job.pc = "raised" => "log" \in job.fails
        /\ events[Len(events)].ok => job.pc = "returned"

C22_Witness ==
    /\ CompanyFailed(job.run)
    /\ job.pc = "returned"
    /\ ~job.success
    /\ WantedPaths \ at_start[job.run] # {}

\* C23: once Company(ticker) has returned, a finished task in which no
\* log_progress call raised has returned success, whatever listings,
\* directory creations, fetches or writes failed, also when every year's
\* listing failed and nothing was written.
C23_SuccessDespiteFailures ==
    (CompanyBuilt(job.run) /\ JobFinished /\ "log" \notin job.fails) =>
        (job.pc = "returned" /\ job.success /\ job.ticker = 1)

C23_Witness ==
    /\ CompanyBuilt(job.run)
    /\ job.pc = "returned"
    /\ job.success
    /\ job.total_filings = 0
    /\ \A y \in Window : \E n \in RunEvents(job.run) :
          events[n].op = "list" /\ events[n].year = y /\ ~events[n].ok
    /\ WantedPaths \ at_start[job.run] # {}

\* C24: a filing whose filing year differs from the year of the iteration
\* is only discarded: nothing else is done for it in that iteration; every
\* directory made and every file looked for, fetched or written belongs to
\* a filing of the iteration's year, lies under that year, and the year is
\* inside the window; the files on disk are those of the start and files
\* of filings listed under their own year.
C24_OtherYearsDiscarded ==
    /\ \A n \in DOMAIN events :
          LET e == events[n] IN
          /\ e.op = "discard" =>
                /\ e.path[1] # e.year
                /\ \A m \in FilingEvents(e.run, e.year, e.doc) : m = n
          /\ (e.path # NoPath /\ e.op # "discard") =>
                /\ e.path[1] = e.year
                /\ e.year \in Window
                /\ e.path \in WantedPaths
    /\ storage.files \subseteq at_start[1] \cup WantedPaths
    /\ \A p \in storage.files : p[1] \in Window
    /\ storage.dirs \subseteq Window
    /\ \A r \in 1..job.run : Opened(r) \subseteq WantedPaths

C24_Witness ==
    /\ \E n \in DOMAIN events :
          /\ events[n].op = "discard"
          /\ events[n].path[1] = MaxWindow + 1
    /\ \E n, m \in DOMAIN events :
          /\ events[n].op = "discard"
          /\ events[m].op = "written"
          /\ events[m].run = events[n].run
          /\ events[m].path = events[n].path
          /\ events[n].year < events[m].year

\* The archives produced that hold identifier id
ArchivesOf(id) == {k \in DOMAIN Produced : id \in Range(Produced[k].ids)}

NoArchiveFailed == \A j \in DOMAIN archive_calls : archive_calls[j].result = "ok"

\* C31: with pairwise distinct identifiers in the entity list, no identifier
\* is in two of the archives produced, also after a failed archive or a
\* failed cleanup, and at run end, when no archive_batch call failed, every
\* successful identifier is in exactly one of them.
C31_EachIdInOneArchive ==
    NoDup(companies_to_fetch) =>
        /\ \A id \in Range(companies_to_fetch) :
              Cardinality(ArchivesOf(id)) <= 1
        /\ (pc = "done" /\ NoArchiveFailed) =>
              \A id \in Range(SuccessIds) : Cardinality(ArchivesOf(id)) = 1

\* main's summary: expected_full_batches and remainder_companies
ExpectedFullBatches == successful_downloads \div batch_size

RemainderCompanies == successful_downloads % batch_size

ExpectedArchives ==
    ExpectedFullBatches + (IF RemainderCompanies > 0 THEN 1 ELSE 0)

\* C32: at run end the number of archives produced is
\* successful_downloads div batch_size, plus one when the division leaves a
\* remainder, and it is the batch counter written as "Batches created".
C32_ArchiveCountMatchesSummary ==
    pc \in {"done", "exit"} =>
        /\ Len(Produced) = ExpectedArchives
        /\ batch_counter = Len(Produced)
====
